---- MODULE Spec2Model ----
(***************************************************************************)
(* A model of the rafter-blog build: the content documents, the index      *)
(* page's query (the "classify" of the specification: two filtered and     *)
(* sorted views of the documents), the creation of one page per document   *)
(* with its previous/next context, and the rendering of the index page and *)
(* of the blog post pages.  A build renders every page once: the index     *)
(* page, then the created pages in the order of their creation.  In the    *)
(* browser every page element is wrapped by wrapPageElement; tree is the   *)
(* element tree of the page rendered last.  SpecRebuild lets a finished    *)
(* build be followed by another one over the same documents, and           *)
(* SpecTemplate applies the blog post template to arbitrary props.         *)
(* SpecContent is the build over the content of the repository, SpecTitles *)
(* the build over documents with and without titles, and SpecTypography    *)
(* the loading of the typography module by the components that import it.  *)
(*                                                                         *)
(* Sequences are 1-based in TLA+ and 0-based in the source; At(s, i) reads *)
(* a sequence at a 0-based index.  An optional value (null or undefined in *)
(* the source) is a sequence of length 0 or 1.                             *)
(***************************************************************************)
EXTENDS Integers, Sequences, FiniteSets, TLC

VARIABLES documents, pc, pages, data, indexElement, postElement, rendered,
          tree, previousBuild, templateProps, typography

vars == <<documents, pc, pages, data, indexElement, postElement, rendered,
          tree, previousBuild, templateProps, typography>>

\* ------------------------------------------------------------- bounds
\* The largest document collection, and the latest date (in ticks).
MaxDocs == 3
MaxDate == 3
\* Ticks of a date that fall on the same calendar day: the date format of
\* the queries keeps the day and drops the time of day.
TicksPerDay == 2

\* ------------------------------------------------------------- documents
\* frontmatter.type when the frontmatter has no type field (null in the
\* query layer).
NoType == "null"
Types == {"journal", "post", NoType}
Dates == 1..MaxDate

None == <<>>
Some(x) == <<x>>
At(s, i) == s[i + 1]

\* frontmatter.title when the frontmatter has no title field (null in the
\* query layer), and the titles a frontmatter may give: none, the empty
\* string, a title.
NoFrontmatterTitle == "null"
Titles == {NoFrontmatterTitle, "", "title"}

\* A content document: its slug (unique, assigned from the file location)
\* and its frontmatter.
TitledDocument(slug, date, type, title) ==
    [fields |-> [slug |-> slug],
     frontmatter |-> [date |-> date, type |-> type, title |-> title]]

\* A document with a title; its slug is its position in the collection.
Document(slug, date, type) == TitledDocument(slug, date, type, "title")

Frontmatters == [date : Dates, type : Types]

\* The collection of the documents with the given frontmatters.
Collection(f) == [k \in DOMAIN f |-> Document(k, f[k].date, f[k].type)]

\* ------------------------------------------------------------- the query layer
\* date(formatString: "MMMM DD, YYYY"): the calendar day of a date.
formatDate(date) == (date - 1) \div TicksPerDay

\* fragment postFields on Mdx: what the index page selects of a document.
postFields(doc) ==
    [fields |-> [slug |-> doc.fields.slug],
     frontmatter |-> [date |-> formatDate(doc.frontmatter.date),
                      title |-> doc.frontmatter.title]]

\* A variant of the ne filter that asks for the field to be present: a
\* document with no type does not pass.
filterTypeNePresent(nodes, value) ==
    SelectSeq(nodes, LAMBDA d : d.frontmatter.type # NoType /\ d.frontmatter.type # value)

\* filter: { frontmatter: { type: { ne: value } } }: a document with no type
\* is not equal to the value and passes.
filterTypeNe(nodes, value) ==
    SelectSeq(nodes, LAMBDA d : d.frontmatter.type # value)

\* filter: { frontmatter: { type: { eq: value } } }
filterTypeEq(nodes, value) ==
    SelectSeq(nodes, LAMBDA d : d.frontmatter.type = value)

\* A variant of the comparison that sorts ascending.
compareAsc(a, b) ==
    IF a.criteria # b.criteria
    THEN (IF a.criteria < b.criteria THEN -1 ELSE 1)
    ELSE a.index - b.index

\* A variant of the comparison that negates the index tie-break with the
\* order: equal dates come out in reverse collection order.
compareDescReversedTies(a, b) ==
    IF a.criteria # b.criteria
    THEN (IF a.criteria > b.criteria THEN -1 ELSE 1)
    ELSE b.index - a.index

\* The comparison of sort: order DESC on one field: a negative result puts a
\* first.  The later date goes first; equal dates keep the collection's
\* order (their indices decide).
compareDesc(a, b) ==
    IF a.criteria # b.criteria
    THEN (IF a.criteria > b.criteria THEN -1 ELSE 1)
    ELSE a.index - b.index

\* sort: { fields: [frontmatter___date], order: DESC }
sortByDateDesc(nodes) ==
    LET n == Len(nodes)
        entry(i) == [criteria |-> nodes[i].frontmatter.date, index |-> i]
        rank(i) == Cardinality({j \in 1..n : compareDesc(entry(j), entry(i)) < 0})
    IN  [k \in 1..n |-> nodes[CHOOSE i \in 1..n : rank(i) = k - 1]]

\* A variant of the posts query with no filter: every document is a post.
allPostsUnfiltered(nodes) == sortByDateDesc(nodes)

\* posts: allMdx(sort: ..., filter: { frontmatter: { type: { ne: "journal" } } })
allPosts(nodes) == sortByDateDesc(filterTypeNe(nodes, "journal"))

\* A variant of the journals query that keeps the posts query's ne filter.
allJournalsNe(nodes) == sortByDateDesc(filterTypeNe(nodes, "journal"))

\* A variant of the journals query with no sort: collection order.
allJournalsUnsorted(nodes) == filterTypeEq(nodes, "journal")

\* journals: allMdx(sort: ..., filter: { frontmatter: { type: { eq: "journal" } } })
allJournals(nodes) == sortByDateDesc(filterTypeEq(nodes, "journal"))

edges(nodes) == [k \in 1..Len(nodes) |-> [node |-> postFields(nodes[k])]]

\* A variant of the index page's query with the two aliases exchanged.
pageQuerySwapped(nodes) ==
    [posts |-> [edges |-> edges(allJournals(nodes))],
     journals |-> [edges |-> edges(allPosts(nodes))]]

\* The index page's query: data.posts.edges and data.journals.edges.
pageQuery(nodes) ==
    [posts |-> [edges |-> edges(allPosts(nodes))],
     journals |-> [edges |-> edges(allJournals(nodes))]]

NoData == [posts |-> [edges |-> <<>>], journals |-> [edges |-> <<>>]]

\* ------------------------------------------------------------- page creation
\* A variant of adjacency whose next reads the position itself instead of
\* the one before it.
adjacencyNextOffByOne(posts, index) ==
    [previous |-> IF index + 1 < Len(posts) THEN Some(At(posts, index + 1)) ELSE None,
     next |-> IF index >= 1 THEN Some(At(posts, index)) ELSE None]

\* adjacency(posts, index) of the sorted posts partition, index 0-based:
\* previous is the document at index + 1 (the next-older one), next the
\* document at index - 1 (the next-newer one), each absent past the ends.
adjacency(posts, index) ==
    [previous |-> IF index + 1 < Len(posts) THEN Some(At(posts, index + 1)) ELSE None,
     next |-> IF index >= 1 THEN Some(At(posts, index - 1)) ELSE None]

\* One page per document.  The pages of the posts partition carry their
\* adjacency; the pages of the journals carry no previous and no next.
createPages(nodes) ==
    LET posts == allPosts(nodes)
        journals == allJournals(nodes)
        postPage(i) ==
            [path |-> At(posts, i).fields.slug,
             context |-> [slug |-> At(posts, i).fields.slug,
                          previous |-> adjacency(posts, i).previous,
                          next |-> adjacency(posts, i).next]]
        journalPage(i) ==
            [path |-> At(journals, i).fields.slug,
             context |-> [slug |-> At(journals, i).fields.slug,
                          previous |-> None,
                          next |-> None]]
    IN  [k \in 1..Len(posts) |-> postPage(k - 1)]
            \o [k \in 1..Len(journals) |-> journalPage(k - 1)]

\* ------------------------------------------------------------- typography
\* process.env.NODE_ENV: the three values the tools set, or none.
Envs == {"production", "development", "test", "undefined"}

\* The typography module before anything imported it: no instance, no
\* styles injected, no exports.  imported holds the components that have
\* imported the module; uses holds the uses of its exports in renders.
NotLoaded ==
    [env |-> "undefined", loaded |-> FALSE, instances |-> 0, injected |-> 0,
     exports |-> None, imported |-> {}, uses |-> {}]

\* What each component imports from the typography module.
typographyImports ==
    [Layout |-> {"rhythm", "scale"},
     BlogPostTemplate |-> {"rhythm", "scale"},
     BlogIndex |-> {"rhythm"}]

\* A variant of the module that injects the styles in production only.
typographyModuleInjectsInProduction(env, created) ==
    [instances |-> created + 1,
     injected |-> IF env = "production" THEN 1 ELSE 0,
     exports |-> Some([default |-> created + 1,
                       rhythm |-> [instance |-> created + 1, method |-> "rhythm"],
                       scale |-> [instance |-> created + 1, method |-> "scale"]])]

\* A variant of the module that takes scale from an instance of its own.
typographyModuleSecondInstance(env, created) ==
    [instances |-> created + 2,
     injected |-> IF env # "production" THEN 1 ELSE 0,
     exports |-> Some([default |-> created + 1,
                       rhythm |-> [instance |-> created + 1, method |-> "rhythm"],
                       scale |-> [instance |-> created + 2, method |-> "scale"]])]

\* The body of the typography module, evaluated when created instances
\* exist: const typography = new Typography(StAnnes), injectStyles() unless
\* NODE_ENV is production, and the exports typography, typography.rhythm
\* and typography.scale.  An instance is named by its number.
typographyModule(env, created) ==
    [instances |-> created + 1,
     injected |-> IF env # "production" THEN 1 ELSE 0,
     exports |-> Some([default |-> created + 1,
                       rhythm |-> [instance |-> created + 1, method |-> "rhythm"],
                       scale |-> [instance |-> created + 1, method |-> "scale"]])]

\* ------------------------------------------------------------- the layout
\* data.site.siteMetadata.title, and the title prop of a Layout that is
\* given none.
siteTitle == "siteTitle"
NoTitle == "undefined"

\* const rootPath = `${__PATH_PREFIX__}/`: pathnames are numbered, the root
\* path is 0 and the page of a document has its slug.
rootPath == 0

\* A variant of Layout that renders the large header on every page.
LayoutLargeHeader(location, title, children) ==
    [type |-> "Layout",
     div |-> <<"header", "children", "NewsletterForm">>,
     header |-> [tag |-> "h1", title |-> title],
     children |-> children,
     form |-> "NewsletterForm"]

\* A variant of Layout that renders the newsletter form above the children.
LayoutFormFirst(location, title, children) ==
    [type |-> "Layout",
     div |-> <<"header", "NewsletterForm", "children">>,
     header |-> [tag |-> IF location.pathname = rootPath THEN "h1" ELSE "h3",
                 title |-> title],
     children |-> children,
     form |-> "NewsletterForm"]

\* function Layout({ location, title, children, wide }): the header (the
\* large h1 on the root path, the small h3 elsewhere), the children, the
\* newsletter form; div is what the returned div holds, in its order.
Layout(location, title, children) ==
    [type |-> "Layout",
     div |-> <<"header", "children", "NewsletterForm">>,
     header |-> [tag |-> IF location.pathname = rootPath THEN "h1" ELSE "h3",
                 title |-> title],
     children |-> children,
     form |-> "NewsletterForm"]

\* exports.wrapPageElement = ({ element, props }) =>
\*     <Layout {...props}>{element}</Layout>: the props of a page hold its
\* location and no title.
wrapPageElement(element, props) ==
    Layout(props.location, NoTitle, Some(element))

\* The number of elements of a type in an element tree.
RECURSIVE CountType(_, _)
CountType(element, type) ==
    (IF element.type = type THEN 1 ELSE 0)
        + (IF element.type = "Layout" /\ element.children # None
           THEN CountType(element.children[1], type)
           ELSE 0)

\* ------------------------------------------------------------- the index page
\* A variant of the link text that falls back to the slug for a missing
\* title only, not for an empty one.
linkTitleNullish(node) ==
    IF node.frontmatter.title # NoFrontmatterTitle
    THEN [kind |-> "title", value |-> node.frontmatter.title]
    ELSE [kind |-> "slug", value |-> node.fields.slug]

\* const title = node.frontmatter.title || node.fields.slug: the title when
\* it is truthy (present and not empty), the slug otherwise.
linkTitle(node) ==
    IF node.frontmatter.title # NoFrontmatterTitle /\ node.frontmatter.title # ""
    THEN [kind |-> "title", value |-> node.frontmatter.title]
    ELSE [kind |-> "slug", value |-> node.fields.slug]

\* function Journals({ journals }): the journal box, with the warning and
\* one item per journal.
Journals(journals) ==
    [warning |-> TRUE,
     items |-> [k \in 1..Len(journals) |->
                   [key |-> journals[k].node.fields.slug,
                    to |-> journals[k].node.fields.slug,
                    text |-> linkTitle(journals[k].node)]]]

\* A variant of BlogIndex that reads the first post before the list and
\* throws when there is none.
BlogIndexFirstPost(d) ==
    [threw |-> Len(d.posts.edges) = 0,
     entries |-> [k \in 1..Len(d.posts.edges) |->
                    [key |-> d.posts.edges[k].node.fields.slug,
                     to |-> d.posts.edges[k].node.fields.slug,
                     text |-> linkTitle(d.posts.edges[k].node),
                     date |-> d.posts.edges[k].node.frontmatter.date]],
     journals |-> Journals(d.journals.edges)]

\* A variant of BlogIndex that keys the entries by their date.
BlogIndexKeyedByDate(d) ==
    [threw |-> FALSE,
     entries |-> [k \in 1..Len(d.posts.edges) |->
                    [key |-> d.posts.edges[k].node.frontmatter.date,
                     to |-> d.posts.edges[k].node.fields.slug,
                     text |-> linkTitle(d.posts.edges[k].node),
                     date |-> d.posts.edges[k].node.frontmatter.date]],
     journals |-> Journals(d.journals.edges)]

\* A variant of BlogIndex that hands the posts to the journal box.
BlogIndexJournalsFromPosts(d) ==
    [threw |-> FALSE,
     entries |-> [k \in 1..Len(d.posts.edges) |->
                    [key |-> d.posts.edges[k].node.fields.slug,
                     to |-> d.posts.edges[k].node.fields.slug,
                     text |-> linkTitle(d.posts.edges[k].node),
                     date |-> d.posts.edges[k].node.frontmatter.date]],
     journals |-> Journals(d.posts.edges)]

\* function BlogIndex({ data, location }): one entry per post, then the
\* journal box.
BlogIndex(d) ==
    LET posts == d.posts.edges
        journals == d.journals.edges
    IN  [threw |-> FALSE,
         entries |-> [k \in 1..Len(posts) |->
                        [key |-> posts[k].node.fields.slug,
                         to |-> posts[k].node.fields.slug,
                         text |-> linkTitle(posts[k].node),
                         date |-> posts[k].node.frontmatter.date]],
         journals |-> Journals(journals)]

\* What BlogIndex returns: its Layout around the entries and the journal
\* box.
BlogIndexElement(d, location) ==
    Layout(location, siteTitle, Some([type |-> "BlogIndex", content |-> BlogIndex(d)]))

\* ------------------------------------------------------------- the post page
\* query($slug): mdx(fields: { slug: { eq: $slug } }) { frontmatter { type date } }
mdx(nodes, slug) ==
    LET doc == nodes[CHOOSE i \in 1..Len(nodes) : nodes[i].fields.slug = slug]
    IN  [frontmatter |-> [type |-> doc.frontmatter.type,
                          date |-> formatDate(doc.frontmatter.date)]]

\* A variant of isJournal that takes everything but a post for a journal.
isJournalNotPost(type) == type # "post"

\* const isJournal = type === 'journal'
isJournal(type) == type = "journal"

\* {previous && <Link to={previous.fields.slug} rel="prev">}
prevLink(previous) ==
    IF previous # None
    THEN Some([to |-> previous[1].fields.slug, rel |-> "prev"])
    ELSE None

\* {next && <Link to={next.fields.slug} rel="next">}
nextLink(next) ==
    IF next # None
    THEN Some([to |-> next[1].fields.slug, rel |-> "next"])
    ELSE None

\* A variant of the template that takes previous for next and next for
\* previous.
BlogPostTemplateSwapped(post, pageContext) ==
    [path |-> pageContext.slug,
     prefix |-> IF isJournal(post.frontmatter.type) THEN "Journal: " ELSE "",
     date |-> IF ~isJournal(post.frontmatter.type) THEN Some(post.frontmatter.date) ELSE None,
     warning |-> isJournal(post.frontmatter.type),
     prev |-> prevLink(pageContext.next),
     next |-> nextLink(pageContext.previous)]

\* A variant of the template that renders the links of posts only.
BlogPostTemplateNoJournalLinks(post, pageContext) ==
    [path |-> pageContext.slug,
     prefix |-> IF isJournal(post.frontmatter.type) THEN "Journal: " ELSE "",
     date |-> IF ~isJournal(post.frontmatter.type) THEN Some(post.frontmatter.date) ELSE None,
     warning |-> isJournal(post.frontmatter.type),
     prev |-> IF isJournal(post.frontmatter.type) THEN None ELSE prevLink(pageContext.previous),
     next |-> IF isJournal(post.frontmatter.type) THEN None ELSE nextLink(pageContext.next)]

\* function BlogPostTemplate({ data, pageContext, location })
BlogPostTemplate(post, pageContext) ==
    LET journal == isJournal(post.frontmatter.type)
    IN  [path |-> pageContext.slug,
         prefix |-> IF journal THEN "Journal: " ELSE "",
         date |-> IF ~journal THEN Some(post.frontmatter.date) ELSE None,
         warning |-> journal,
         prev |-> prevLink(pageContext.previous),
         next |-> nextLink(pageContext.next)]

\* What BlogPostTemplate returns: its Layout around the post.
BlogPostElement(post, pageContext, location) ==
    Layout(location, siteTitle,
           Some([type |-> "BlogPost", content |-> BlogPostTemplate(post, pageContext)]))

\* ------------------------------------------------------------- state
Init ==
    /\ \E n \in 0..MaxDocs : \E f \in [1..n -> Frontmatters] :
          documents = Collection(f)
    /\ pc = "createPages"
    /\ pages = <<>>
    /\ data = NoData
    /\ indexElement = None
    /\ postElement = None
    /\ rendered = 0
    /\ tree = None
    /\ previousBuild = None
    /\ templateProps = None
    /\ typography = NotLoaded

\* The build creates the pages.
CreatePages ==
    /\ pc = "createPages"
    /\ pages' = createPages(documents)
    /\ pc' = "pageQuery"
    /\ UNCHANGED <<documents, data, indexElement, postElement, rendered,
                   tree, previousBuild, templateProps, typography>>

\* A variant of the query step that adds what it finds to the edges it
\* already holds.
RunPageQueryAccumulating ==
    /\ pc = "pageQuery"
    /\ data' = [posts |-> [edges |-> data.posts.edges \o pageQuery(documents).posts.edges],
                journals |-> [edges |-> data.journals.edges
                                            \o pageQuery(documents).journals.edges]]
    /\ pc' = "render"
    /\ UNCHANGED <<documents, pages, indexElement, postElement, rendered,
                   tree, previousBuild, templateProps, typography>>

\* A variant of the query step that sorts the document collection in place
\* before it filters it.
RunPageQuerySortsInPlace ==
    /\ pc = "pageQuery"
    /\ documents' = sortByDateDesc(documents)
    /\ data' = pageQuery(documents')
    /\ pc' = "render"
    /\ UNCHANGED <<pages, indexElement, postElement, rendered,
                   tree, previousBuild, templateProps, typography>>

\* The index page's query runs.
RunPageQuery ==
    /\ pc = "pageQuery"
    /\ data' = pageQuery(documents)
    /\ pc' = "render"
    /\ UNCHANGED <<documents, pages, indexElement, postElement, rendered,
                   tree, previousBuild, templateProps, typography>>

\* The index page is rendered.
RenderBlogIndex ==
    /\ pc = "render"
    /\ indexElement = None
    /\ indexElement' = Some(BlogIndex(data))
    /\ tree' = Some(wrapPageElement(BlogIndexElement(data, [pathname |-> rootPath]),
                                    [location |-> [pathname |-> rootPath]]))
    /\ UNCHANGED <<documents, pc, pages, data, postElement, rendered,
                   previousBuild, templateProps, typography>>

\* The next created page is rendered.
RenderBlogPost ==
    /\ pc = "render"
    /\ indexElement # None
    /\ rendered < Len(pages)
    /\ postElement' =
          Some(BlogPostTemplate(mdx(documents, At(pages, rendered).context.slug),
                                At(pages, rendered).context))
    /\ tree' =
          Some(wrapPageElement(
                   BlogPostElement(mdx(documents, At(pages, rendered).context.slug),
                                   At(pages, rendered).context,
                                   [pathname |-> At(pages, rendered).path]),
                   [location |-> [pathname |-> At(pages, rendered).path]]))
    /\ rendered' = rendered + 1
    /\ UNCHANGED <<documents, pc, pages, data, indexElement,
                   previousBuild, templateProps, typography>>

Next ==
    \/ CreatePages
    \/ RunPageQuery
    \/ RenderBlogIndex
    \/ RenderBlogPost

Spec == Init /\ [][Next]_vars

\* A finished build is followed by another build over the same documents.
\* What the finished build produced is remembered, and stays in place until
\* the new build writes it again.
Rebuild ==
    /\ pc = "render"
    /\ indexElement # None
    /\ rendered = Len(pages)
    /\ previousBuild' = Some([pages |-> pages, data |-> data])
    /\ pc' = "createPages"
    /\ indexElement' = None
    /\ postElement' = None
    /\ tree' = None
    /\ rendered' = 0
    /\ UNCHANGED <<documents, pages, data, templateProps, typography>>

NextRebuild ==
    \/ CreatePages
    \/ RunPageQuery
    \/ RenderBlogIndex
    \/ RenderBlogPost
    \/ Rebuild

SpecRebuild == Init /\ [][NextRebuild]_vars

\* The blog post template applied to arbitrary props: a post of any type
\* and a page context with or without a previous and a next document.
Neighbours == {None} \cup {Some(Document(s, 1, t)) : s \in 1..MaxDocs, t \in Types}

InitTemplate ==
    /\ \E s \in 1..MaxDocs, d \in Dates, t \in Types, p \in Neighbours, n \in Neighbours :
          templateProps =
              Some([post |-> [frontmatter |-> [type |-> t, date |-> formatDate(d)]],
                    pageContext |-> [slug |-> s, previous |-> p, next |-> n]])
    /\ documents = <<>>
    /\ pc = "template"
    /\ pages = <<>>
    /\ data = NoData
    /\ indexElement = None
    /\ postElement = None
    /\ rendered = 0
    /\ tree = None
    /\ previousBuild = None
    /\ typography = NotLoaded

ApplyTemplate ==
    /\ pc = "template"
    /\ postElement' = Some(BlogPostTemplate(templateProps[1].post,
                                            templateProps[1].pageContext))
    /\ pc' = "templateDone"
    /\ UNCHANGED <<documents, pages, data, indexElement, rendered, tree,
                   previousBuild, templateProps, typography>>

NextTemplate ==
    \/ ApplyTemplate

SpecTemplate == InitTemplate /\ [][NextTemplate]_vars

\* ------------------------------------------------------------- the content
\* A date of the content, "YYYY-MM-DD hh:mm:ss", by its day of the year and
\* its hour.
contentDate(day, hour) == day * TicksPerDay + 1 + (hour * TicksPerDay) \div 24

\* title: Tracking Queued Job Chains in Laravel, date: '2020-05-05 14:52:18'
trackingQueuedJobChains ==
    TitledDocument(1, contentDate(126, 14), NoType,
                   "Tracking Queued Job Chains in Laravel")

\* title: 'A Spark: Why am I building Rafter?', date: '2020-04-16 10:00:00'
aSpark ==
    TitledDocument(2, contentDate(107, 10), NoType,
                   "A Spark: Why am I building Rafter?")

\* title: 'What is Rafter?', date: '2020-04-23 09:54:54'
whatIsRafter ==
    TitledDocument(3, contentDate(114, 9), NoType, "What is Rafter?")

\* title: 'Building Commands Integration', date: '2020-04-28 09:19:29',
\* type: journal
buildingCommandsIntegration ==
    TitledDocument(4, contentDate(119, 9), "journal",
                   "Building Commands Integration")

content ==
    <<trackingQueuedJobChains, aSpark, whatIsRafter, buildingCommandsIntegration>>

\* The build over the content of the repository, which the file system
\* hands over in any order.
InitContent ==
    /\ \E order \in [1..Len(content) -> 1..Len(content)] :
          /\ \A i, j \in 1..Len(content) : i # j => order[i] # order[j]
          /\ documents = [k \in 1..Len(content) |-> content[order[k]]]
    /\ pc = "createPages"
    /\ pages = <<>>
    /\ data = NoData
    /\ indexElement = None
    /\ postElement = None
    /\ rendered = 0
    /\ tree = None
    /\ previousBuild = None
    /\ templateProps = None
    /\ typography = NotLoaded

SpecContent == InitContent /\ [][Next]_vars

\* ------------------------------------------------------------- titles
\* The build over documents of one date whose frontmatter has a title, an
\* empty title or no title.
TitledFrontmatters == [type : Types, title : Titles]

InitTitles ==
    /\ \E n \in 0..MaxDocs : \E f \in [1..n -> TitledFrontmatters] :
          documents = [k \in 1..n |-> TitledDocument(k, 1, f[k].type, f[k].title)]
    /\ pc = "createPages"
    /\ pages = <<>>
    /\ data = NoData
    /\ indexElement = None
    /\ postElement = None
    /\ rendered = 0
    /\ tree = None
    /\ previousBuild = None
    /\ templateProps = None
    /\ typography = NotLoaded

SpecTitles == InitTitles /\ [][Next]_vars

\* ------------------------------------------------------------- typography
\* The components are loaded under some NODE_ENV, in any order, and render
\* with what they imported.
InitTypography ==
    /\ \E env \in Envs : typography = [NotLoaded EXCEPT !.env = env]
    /\ documents = <<>>
    /\ pc = "typography"
    /\ pages = <<>>
    /\ data = NoData
    /\ indexElement = None
    /\ postElement = None
    /\ rendered = 0
    /\ tree = None
    /\ previousBuild = None
    /\ templateProps = None

\* import { rhythm, scale } from '../utils/typography': the first import
\* evaluates the module, every later one gets what the first one made.
Import(component) ==
    /\ pc = "typography"
    /\ component \notin typography.imported
    /\ LET module == typographyModule(typography.env, typography.instances)
       IN  typography' =
               IF typography.loaded
               THEN [typography EXCEPT !.imported = @ \cup {component}]
               ELSE [typography EXCEPT !.loaded = TRUE,
                                       !.instances = module.instances,
                                       !.injected = @ + module.injected,
                                       !.exports = module.exports,
                                       !.imported = @ \cup {component}]
    /\ UNCHANGED <<documents, pc, pages, data, indexElement, postElement,
                   rendered, tree, previousBuild, templateProps>>

\* A render of a component calls rhythm or scale as it imported it.
Use(component, name) ==
    /\ pc = "typography"
    /\ component \in typography.imported
    /\ name \in typographyImports[component]
    /\ typography' =
           [typography EXCEPT
               !.uses = @ \cup {[component |-> component,
                                 method |-> typography.exports[1][name].method,
                                 instance |-> typography.exports[1][name].instance]}]
    /\ UNCHANGED <<documents, pc, pages, data, indexElement, postElement,
                   rendered, tree, previousBuild, templateProps>>

NextTypography ==
    \/ \E component \in DOMAIN typographyImports : Import(component)
    \/ \E component \in DOMAIN typographyImports, name \in {"rhythm", "scale"} :
          Use(component, name)

SpecTypography == InitTypography /\ [][NextTypography]_vars

\* ------------------------------------------------------------- reading the state
Queried == pc = "render"
posts == data.posts.edges
journals == data.journals.edges
\* The document a node of a query result was selected from.
DocOf(n) == documents[CHOOSE i \in 1..Len(documents) : documents[i].fields.slug = n.fields.slug]
Slugs(es) == {es[k].node.fields.slug : k \in 1..Len(es)}
InputIndex(n) == CHOOSE i \in 1..Len(documents) : documents[i].fields.slug = n.fields.slug
DateOf(n) == DocOf(n).frontmatter.date
TypeOf(n) == DocOf(n).frontmatter.type

\* ------------------------------------------------------------- classify
\* C1: the posts and the journals of the index query together hold exactly
\* the input documents, each once, and no document is in both.
C1_PartitionComplete ==
    Queried =>
        /\ Slugs(posts) \cup Slugs(journals)
              = {documents[i].fields.slug : i \in 1..Len(documents)}
        /\ Slugs(posts) \cap Slugs(journals) = {}
        /\ Len(posts) + Len(journals) = Len(documents)

C1_Witness ==
    /\ Queried
    /\ Len(posts) >= 1
    /\ Len(journals) >= 1
    /\ \E i \in 1..Len(documents) : documents[i].frontmatter.type = NoType

\* C2: a document is in journals if and only if its frontmatter.type is
\* "journal"; every other document is in posts.
C2_PartitionByType ==
    Queried =>
        \A i \in 1..Len(documents) :
            LET d == documents[i]
            IN  /\ (d.fields.slug \in Slugs(journals)) <=> (d.frontmatter.type = "journal")
                /\ (d.fields.slug \in Slugs(posts)) <=> (d.frontmatter.type # "journal")

C2_Witness ==
    /\ Queried
    /\ \E i, j \in 1..Len(documents) :
          /\ documents[i].frontmatter.type = "journal"
          /\ documents[j].frontmatter.type = "post"
          /\ documents[i].fields.slug \in Slugs(journals)
          /\ documents[j].fields.slug \in Slugs(posts)

\* C3: a document whose frontmatter has no type is in posts and not in
\* journals.
C3_MissingTypeIsPost ==
    Queried =>
        \A i \in 1..Len(documents) :
            documents[i].frontmatter.type = NoType =>
                /\ documents[i].fields.slug \in Slugs(posts)
                /\ documents[i].fields.slug \notin Slugs(journals)

C3_Witness ==
    /\ Queried
    /\ \E i \in 1..Len(documents) :
          /\ documents[i].frontmatter.type = NoType
          /\ documents[i].fields.slug \in Slugs(posts)
    /\ Len(journals) >= 1

SortedDesc(es) ==
    \A i, j \in 1..Len(es) : i < j => DateOf(es[i].node) >= DateOf(es[j].node)

\* C4: in posts and in journals, the document at an earlier position has a
\* date greater than or equal to the date of every later one.
C4_SortedByDateDesc ==
    Queried => SortedDesc(posts) /\ SortedDesc(journals)

C4_Witness ==
    /\ Queried
    /\ Len(posts) >= 2
    /\ DateOf(posts[1].node) > DateOf(posts[Len(posts)].node)
    /\ InputIndex(posts[1].node) > InputIndex(posts[Len(posts)].node)

Stable(es) ==
    \A i, j \in 1..Len(es) :
        (i < j /\ DateOf(es[i].node) = DateOf(es[j].node))
            => InputIndex(es[i].node) < InputIndex(es[j].node)

\* C5: two documents of one partition with identical dates come out in the
\* order they have in the input collection.
C5_StableSort ==
    Queried => Stable(posts) /\ Stable(journals)

C5_Witness ==
    /\ Queried
    /\ \E i, j \in 1..Len(posts) :
          /\ i < j
          /\ DateOf(posts[i].node) = DateOf(posts[j].node)
    /\ \E i, j \in 1..Len(posts) :
          /\ i < j
          /\ InputIndex(posts[i].node) > InputIndex(posts[j].node)

\* ------------------------------------------------------------- adjacency
Created == pc # "createPages"
PageOf(slug) == pages[CHOOSE k \in 1..Len(pages) : pages[k].path = slug]
\* The document at a 0-based position of the posts partition.
PostAt(i) == DocOf(At(posts, i).node)
Rendered(slug) == postElement # None /\ postElement[1].path = slug

\* C6: for the post at position i of the sorted posts partition, previous is
\* the document at i + 1 when there is one and next the document at i - 1
\* when i >= 1, and the post's page links to them as prev and next.
C6_AdjacencyCorrect ==
    Queried =>
        \A i \in 0..(Len(posts) - 1) :
            LET slug == PostAt(i).fields.slug
                ctx == PageOf(slug).context
            IN  /\ i + 1 < Len(posts) =>
                      /\ ctx.previous = Some(PostAt(i + 1))
                      /\ Rendered(slug) =>
                            postElement[1].prev
                                = Some([to |-> PostAt(i + 1).fields.slug, rel |-> "prev"])
                /\ i >= 1 =>
                      /\ ctx.next = Some(PostAt(i - 1))
                      /\ Rendered(slug) =>
                            postElement[1].next
                                = Some([to |-> PostAt(i - 1).fields.slug, rel |-> "next"])

\* The example [P3, P2, P1]: the page of P2 (position 1) is rendered with
\* prev = P1 and next = P3.
C6_Witness ==
    /\ Queried
    /\ Len(posts) = 3
    /\ DateOf(At(posts, 0).node) > DateOf(At(posts, 1).node)
    /\ DateOf(At(posts, 1).node) > DateOf(At(posts, 2).node)
    /\ Rendered(PostAt(1).fields.slug)
    /\ postElement[1].prev = Some([to |-> PostAt(2).fields.slug, rel |-> "prev"])
    /\ postElement[1].next = Some([to |-> PostAt(0).fields.slug, rel |-> "next"])

\* C7: in a non-empty posts partition the post at position 0 has no next
\* and the post at the last position has no previous (a single post has
\* neither), and their pages render no such link.
C7_AdjacencyBoundary ==
    (Queried /\ Len(posts) >= 1) =>
        LET first == PostAt(0).fields.slug
            last == PostAt(Len(posts) - 1).fields.slug
        IN  /\ PageOf(first).context.next = None
            /\ PageOf(last).context.previous = None
            /\ Rendered(first) => postElement[1].next = None
            /\ Rendered(last) => postElement[1].prev = None

C7_Witness ==
    /\ Queried
    /\ Len(posts) >= 2
    /\ Rendered(PostAt(0).fields.slug)
    /\ postElement[1].next = None
    /\ postElement[1].prev # None

\* The single-post case of C7.
C7_WitnessSingle ==
    /\ Queried
    /\ Len(posts) = 1
    /\ Rendered(PostAt(0).fields.slug)
    /\ postElement[1].next = None
    /\ postElement[1].prev = None

\* C8: a journal has no previous and no next, the previous and the next of
\* a page are never journals, and a journal's page renders no prev and no
\* next link.
C8_AdjacencyPostsOnly ==
    Created =>
        \A k \in 1..Len(pages) :
            LET ctx == pages[k].context
                type == mdx(documents, ctx.slug).frontmatter.type
            IN  /\ type = "journal" =>
                      /\ ctx.previous = None
                      /\ ctx.next = None
                      /\ Rendered(ctx.slug) =>
                            /\ postElement[1].prev = None
                            /\ postElement[1].next = None
                /\ ctx.previous # None => ctx.previous[1].frontmatter.type # "journal"
                /\ ctx.next # None => ctx.next[1].frontmatter.type # "journal"

\* A journal dated between two posts is rendered, and the posts are each
\* other's neighbours.
C8_Witness ==
    /\ Queried
    /\ Len(posts) = 2
    /\ Len(journals) = 1
    /\ DateOf(At(posts, 0).node) > DateOf(journals[1].node)
    /\ DateOf(journals[1].node) > DateOf(At(posts, 1).node)
    /\ Rendered(journals[1].node.fields.slug)
    /\ postElement[1].warning
    /\ PageOf(PostAt(0).fields.slug).context.previous = Some(PostAt(1))

\* ------------------------------------------------------------- edge cases
\* C9: for the empty collection, posts and journals are both empty and the
\* index page renders, without throwing, two empty lists.
C9_EmptyInput ==
    documents = <<>> =>
        /\ Queried => posts = <<>> /\ journals = <<>>
        /\ indexElement # None =>
              /\ ~indexElement[1].threw
              /\ indexElement[1].entries = <<>>
              /\ indexElement[1].journals.items = <<>>

C9_Witness ==
    /\ documents = <<>>
    /\ Queried
    /\ indexElement # None
    /\ indexElement[1].journals.warning

AllJournals == \A i \in 1..Len(documents) : documents[i].frontmatter.type = "journal"

\* C10: when every document has type "journal", posts is empty and journals
\* holds every input document, sorted by date descending.
C10_OnlyJournals ==
    (Queried /\ AllJournals) =>
        /\ posts = <<>>
        /\ Len(journals) = Len(documents)
        /\ Slugs(journals) = {documents[i].fields.slug : i \in 1..Len(documents)}
        /\ SortedDesc(journals)

C10_Witness ==
    /\ Queried
    /\ AllJournals
    /\ Len(documents) = MaxDocs
    /\ documents[1].frontmatter.date < documents[2].frontmatter.date
    /\ journals[1].node.fields.slug # documents[1].fields.slug

\* ------------------------------------------------------------- purity
\* C11: no step of a build changes the document collection or a document
\* (slug and frontmatter), and rendering changes neither the query result
\* nor the created pages.
C11_Pure ==
    [][/\ documents' = documents
       /\ (pc = "render" /\ pc' = "render") => (data' = data /\ pages' = pages)]_vars

\* In a second build, after the query ran and the index page was rendered,
\* a collection that is not in date order is as it was at the start.
C11_Witness ==
    /\ previousBuild # None
    /\ Queried
    /\ indexElement # None
    /\ Len(documents) >= 2
    /\ documents[1].frontmatter.date < documents[2].frontmatter.date
    /\ \A k \in 1..Len(documents) : documents[k].fields.slug = k
    /\ Len(posts) >= 2
    /\ pages # <<>>

\* ------------------------------------------------------------- the index lists
Distinct(seq) == \A i, j \in 1..Len(seq) : i # j => seq[i] # seq[j]
Keys(items) == [k \in 1..Len(items) |-> items[k].key]
Targets(items) == [k \in 1..Len(items) |-> items[k].to]
Range(seq) == {seq[k] : k \in 1..Len(seq)}

\* C13: the slugs of the input are unique, and so no two documents of posts
\* and journals share a slug, and the keys of the entries of each list of
\* the index page are pairwise distinct.
C13_UniqueKeys ==
    /\ Queried =>
          Distinct([k \in 1..Len(posts) |-> posts[k].node.fields.slug]
                      \o [k \in 1..Len(journals) |-> journals[k].node.fields.slug])
    /\ indexElement # None =>
          /\ Distinct(Keys(indexElement[1].entries))
          /\ Distinct(Keys(indexElement[1].journals.items))

\* Two posts of the same day are listed, and a journal.
C13_Witness ==
    /\ indexElement # None
    /\ \E i, j \in 1..Len(indexElement[1].entries) :
          /\ i # j
          /\ indexElement[1].entries[i].date = indexElement[1].entries[j].date
    /\ Len(indexElement[1].journals.items) >= 1

C15_IndexProjection ==
    indexElement # None =>
        LET main == Targets(indexElement[1].entries)
            box == Targets(indexElement[1].journals.items)
        IN  /\ main = [k \in 1..Len(posts) |-> posts[k].node.fields.slug]
            /\ box = [k \in 1..Len(journals) |-> journals[k].node.fields.slug]
            /\ Range(main) \cap Range(box) = {}
            /\ Range(main) \cup Range(box)
                  = {documents[i].fields.slug : i \in 1..Len(documents)}
            /\ Len(main) + Len(box) = Len(documents)

C15_Witness ==
    /\ indexElement # None
    /\ Len(indexElement[1].entries) = 2
    /\ Len(indexElement[1].journals.items) = 1
    /\ indexElement[1].entries[1].to > indexElement[1].entries[2].to

\* ------------------------------------------------------------- adjacency, continued
\* C16: within the posts partition, the post at j is the previous of the
\* post at i if and only if the post at i is the next of the post at j, and
\* no post is its own previous or next.
C16_AdjacencySymmetric ==
    Queried =>
        \A i, j \in 0..(Len(posts) - 1) :
            LET pi == PageOf(PostAt(i).fields.slug).context
                pj == PageOf(PostAt(j).fields.slug).context
            IN  /\ (pi.previous = Some(PostAt(j))) <=> (pj.next = Some(PostAt(i)))
                /\ pi.previous # Some(PostAt(i))
                /\ pi.next # Some(PostAt(i))

C16_Witness ==
    /\ Queried
    /\ Len(posts) = 3
    /\ PageOf(PostAt(1).fields.slug).context.previous = Some(PostAt(2))
    /\ PageOf(PostAt(2).fields.slug).context.next = Some(PostAt(1))
    /\ PageOf(PostAt(1).fields.slug).context.next = Some(PostAt(0))

\* C17: the previous of a post, when present, is not newer than the post,
\* and its next, when present, is not older; the same holds of the targets
\* of the links its page renders.
C17_AdjacencyDates ==
    Queried =>
        \A i \in 0..(Len(posts) - 1) :
            LET p == PostAt(i)
                ctx == PageOf(p.fields.slug).context
            IN  /\ ctx.previous # None =>
                      ctx.previous[1].frontmatter.date <= p.frontmatter.date
                /\ ctx.next # None =>
                      ctx.next[1].frontmatter.date >= p.frontmatter.date
                /\ Rendered(p.fields.slug) =>
                      /\ postElement[1].prev # None =>
                            documents[postElement[1].prev[1].to].frontmatter.date
                                <= p.frontmatter.date
                      /\ postElement[1].next # None =>
                            documents[postElement[1].next[1].to].frontmatter.date
                                >= p.frontmatter.date

C17_Witness ==
    /\ Queried
    /\ Len(posts) = 3
    /\ Rendered(PostAt(1).fields.slug)
    /\ PostAt(2).frontmatter.date < PostAt(1).frontmatter.date
    /\ PostAt(0).frontmatter.date > PostAt(1).frontmatter.date
    /\ postElement[1].prev # None
    /\ postElement[1].next # None

\* ------------------------------------------------------------- the page tree
\* C18: the element tree of every page rendered through wrapPageElement
\* holds exactly one Layout (and so one header and one newsletter form).
C18_OneLayout ==
    tree # None => CountType(tree[1], "Layout") = 1

\* ------------------------------------------------------------- the post page
\* C19: a post page renders exactly one of the date line and the journal
\* warning: a document of type "journal" gets the "Journal: " prefix and the
\* warning and no date, every other document (one with no type too) the
\* date and neither prefix nor warning.
C19_JournalOrDate ==
    (pc = "render" /\ postElement # None) =>
        LET e == postElement[1]
            doc == documents[CHOOSE i \in 1..Len(documents) :
                                documents[i].fields.slug = e.path]
        IN  /\ (e.date # None) # e.warning
            /\ doc.frontmatter.type = "journal" =>
                  /\ e.prefix = "Journal: "
                  /\ e.warning
                  /\ e.date = None
            /\ doc.frontmatter.type # "journal" =>
                  /\ e.prefix = ""
                  /\ ~e.warning
                  /\ e.date = Some(formatDate(doc.frontmatter.date))

\* The page of a document with no type is rendered with its date, after a
\* journal's page could have been.
C19_Witness ==
    /\ pc = "render"
    /\ postElement # None
    /\ mdx(documents, postElement[1].path).frontmatter.type = NoType
    /\ postElement[1].date # None
    /\ ~postElement[1].warning
    /\ Len(journals) >= 1

\* C20: the template renders the prev link if and only if pageContext.previous
\* is present and the next link if and only if pageContext.next is present,
\* each to the slug of that document, whatever the type of the current
\* document.
C20_LinksFollowContext ==
    pc = "templateDone" =>
        LET ctx == templateProps[1].pageContext
            e == postElement[1]
        IN  /\ (e.prev # None) <=> (ctx.previous # None)
            /\ (e.next # None) <=> (ctx.next # None)
            /\ e.prev # None =>
                  e.prev[1] = [to |-> ctx.previous[1].fields.slug, rel |-> "prev"]
            /\ e.next # None =>
                  e.next[1] = [to |-> ctx.next[1].fields.slug, rel |-> "next"]

\* A journal with a previous and no next: the prev link is rendered.
C20_Witness ==
    /\ pc = "templateDone"
    /\ templateProps[1].post.frontmatter.type = "journal"
    /\ templateProps[1].pageContext.previous # None
    /\ templateProps[1].pageContext.next = None
    /\ postElement[1].prev # None
    /\ postElement[1].next = None
    /\ postElement[1].warning

\* ------------------------------------------------------------- the content
NodeTitles(es) == [k \in 1..Len(es) |-> es[k].node.frontmatter.title]
NodeDays(es) == [k \in 1..Len(es) |-> es[k].node.frontmatter.date]

\* C21: over the four content documents, in whatever order they are read,
\* posts is Tracking Queued Job Chains in Laravel (2020-05-05), What is
\* Rafter? (2020-04-23), A Spark: Why am I building Rafter? (2020-04-16),
\* journals is Building Commands Integration, and the page of What is
\* Rafter? has A Spark as previous and Tracking Queued Job Chains as next.
C21_Content ==
    Queried =>
        /\ NodeTitles(posts) = <<"Tracking Queued Job Chains in Laravel",
                                 "What is Rafter?",
                                 "A Spark: Why am I building Rafter?">>
        /\ NodeDays(posts) = <<126, 114, 107>>
        /\ NodeTitles(journals) = <<"Building Commands Integration">>
        /\ PageOf(whatIsRafter.fields.slug).context.previous = Some(aSpark)
        /\ PageOf(whatIsRafter.fields.slug).context.next = Some(trackingQueuedJobChains)
        /\ Rendered(whatIsRafter.fields.slug) =>
              /\ postElement[1].prev = Some([to |-> aSpark.fields.slug, rel |-> "prev"])
              /\ postElement[1].next
                    = Some([to |-> trackingQueuedJobChains.fields.slug, rel |-> "next"])

\* The content is read oldest post first, and the page of What is Rafter?
\* is rendered with both links.
C21_Witness ==
    /\ documents = <<aSpark, buildingCommandsIntegration, whatIsRafter,
                     trackingQueuedJobChains>>
    /\ Queried
    /\ Len(posts) = 3
    /\ Len(journals) = 1
    /\ Rendered(whatIsRafter.fields.slug)
    /\ postElement[1].prev # None
    /\ postElement[1].next # None

\* ------------------------------------------------------------- the layout
\* The Layout elements of an element tree.
RECURSIVE LayoutsOf(_)
LayoutsOf(element) ==
    IF element.type = "Layout"
    THEN {element} \cup (IF element.children # None
                         THEN LayoutsOf(element.children[1])
                         ELSE {})
    ELSE {}

\* The location of the page whose element tree was rendered last: the root
\* path for the index page, its path for a created page.
TreePath == IF rendered = 0 THEN rootPath ELSE At(pages, rendered - 1).path

Position(seq, x) == CHOOSE k \in 1..Len(seq) : seq[k] = x
Occurrences(seq, x) == Cardinality({k \in 1..Len(seq) : seq[k] = x})

\* C22: a Layout renders one header, the h1 when its location is the root
\* path and the h3 when it is any other, then the children, then the
\* newsletter form.
C22_LayoutHeader ==
    tree # None =>
        \A layout \in LayoutsOf(tree[1]) :
            /\ Occurrences(layout.div, "header") = 1
            /\ layout.header.tag \in {"h1", "h3"}
            /\ layout.header.tag = "h1" <=> TreePath = rootPath
            /\ layout.header.tag = "h3" <=> TreePath # rootPath
            /\ Position(layout.div, "header") < Position(layout.div, "children")
            /\ Position(layout.div, "children") < Position(layout.div, "NewsletterForm")

\* A created page is rendered after the index page: its layout has the
\* small header, where the index page's had the large one.
C22_Witness ==
    /\ tree # None
    /\ rendered >= 1
    /\ TreePath # rootPath
    /\ tree[1].header.tag = "h3"
    /\ tree[1].children # None
    /\ indexElement # None

\* The index page's layout, on the root path, has the large header.
C22_WitnessRoot ==
    /\ tree # None
    /\ rendered = 0
    /\ tree[1].header.tag = "h1"
    /\ tree[1].children # None

\* ------------------------------------------------------------- link texts
HasTitle(doc) ==
    doc.frontmatter.title # NoFrontmatterTitle /\ doc.frontmatter.title # ""

\* The link of a list of the index page to a document says the title,
\* or the slug when there is no title to say, and leads to the slug.
LinkOf(item, doc) ==
    /\ item.to = doc.fields.slug
    /\ HasTitle(doc) =>
          /\ item.text.kind = "title"
          /\ item.text.value = doc.frontmatter.title
    /\ ~HasTitle(doc) =>
          /\ item.text.kind = "slug"
          /\ item.text.value = doc.fields.slug

\* C23: in the post list and in the journal list of the index page, the
\* text of an entry's link is the document's frontmatter.title when it is
\* present and not empty and the document's slug otherwise, and the link
\* leads to the slug.
C23_LinkText ==
    indexElement # None =>
        /\ Len(indexElement[1].entries) = Len(posts)
        /\ Len(indexElement[1].journals.items) = Len(journals)
        /\ \A k \in 1..Len(posts) :
              LinkOf(indexElement[1].entries[k], DocOf(posts[k].node))
        /\ \A k \in 1..Len(journals) :
              LinkOf(indexElement[1].journals.items[k], DocOf(journals[k].node))

\* A post with a title, a post with an empty title and a journal with no
\* title are listed.
C23_Witness ==
    /\ indexElement # None
    /\ \E i, j \in 1..Len(posts) :
          /\ DocOf(posts[i].node).frontmatter.title = "title"
          /\ DocOf(posts[j].node).frontmatter.title = ""
          /\ indexElement[1].entries[i].text.kind = "title"
          /\ indexElement[1].entries[j].text.kind = "slug"
    /\ \E k \in 1..Len(journals) :
          /\ DocOf(journals[k].node).frontmatter.title = NoFrontmatterTitle
          /\ indexElement[1].journals.items[k].text.kind = "slug"

\* ------------------------------------------------------------- typography
\* C24: loading the typography module creates exactly one Typography
\* instance, every render uses the rhythm and the scale of that instance,
\* and injectStyles is called at load if and only if NODE_ENV is not
\* "production" (and then once).
C24_OneTypography ==
    /\ typography.loaded =>
          /\ typography.instances = 1
          /\ typography.exports # None
          /\ \A use \in typography.uses :
                use.instance = typography.exports[1].default
          /\ typography.injected = 1 <=> typography.env # "production"
          /\ typography.injected = 0 <=> typography.env = "production"
    /\ ~typography.loaded =>
          /\ typography.instances = 0
          /\ typography.injected = 0
          /\ typography.uses = {}

\* In production, all three components have imported the module and have
\* rendered with rhythm and with scale, and no styles were injected.
C24_Witness ==
    /\ typography.env = "production"
    /\ typography.loaded
    /\ typography.imported = DOMAIN typographyImports
    /\ \A component \in DOMAIN typographyImports :
          \A name \in typographyImports[component] :
              \E use \in typography.uses :
                  use.component = component /\ use.method = name
    /\ typography.injected = 0

\* In development the styles were injected at load.
C24_WitnessDevelopment ==
    /\ typography.env = "development"
    /\ typography.loaded
    /\ Cardinality(typography.imported) >= 2
    /\ typography.uses # {}
    /\ typography.injected = 1
====
